---- MODULE Spec2Model ----
(***************************************************************************)
(* Model of the dual-pane state browser of src/main.rs: the StatefulList   *)
(* navigator (two list cursors and a focus), App::new, the run_app event   *)
(* loop and the value resolution done by ui.                               *)
(*                                                                         *)
(* Rust indices are 0-based; TLA+ sequences are 1-based, so items[i] of    *)
(* the source is items[i + 1] here.  Option<usize> is a sequence of length *)
(* at most one: None is << >> and Some(i) is << i >>.                      *)
(***************************************************************************)
EXTENDS Integers, Sequences, FiniteSets

VARIABLES
    contract,       \* contract.state: sequence of [key, value] entries
    state,          \* StatefulList.state.selected()
    items,          \* StatefulList.items
    second_state,   \* StatefulList.second_state.selected()
    second_items,   \* StatefulList.second_items
    current_list,   \* StatefulList.current_list
    events,         \* App.events
    shown,          \* text of the "State Value" paragraph last drawn by ui
    pc,             \* position of the program
    last_op,        \* the operation executed by the last step
    log,            \* history: the last commands, each with the list before it
    script          \* history: commands of the scenario matched so far, or -1

vars == <<contract, state, items, second_state, second_items, current_list,
          events, shown, pc, last_op, log, script>>

----------------------------------------------------------------------------
(* Bounds of the model *)

MaxKeys == 2        \* top-level keys of a contract state
MaxEntries == 2     \* entries of a Map value

KeyNames == <<"x", "y", "z", "w", "v">>
MapKeyNames == <<"a", "b", "c", "d", "e">>
MapValues == <<"1", "2", "3", "4", "5">>
ItemValues == {"leaf", "other"}

----------------------------------------------------------------------------
(* Option<usize> *)

None == << >>
Some(i) == << i >>
unwrap(o) == o[1]

(* usize::MAX, the result of 0 - 1 in a build without overflow checks.     *)
(* TLC integers are 32 bits wide, so the model takes the largest of them:  *)
(* like 2^64 - 1 it is larger than the length of any list.                 *)
UsizeMax == 2147483647

----------------------------------------------------------------------------
(* synnax::query::contract::ItemOrMap and Contract.state *)

Item(v) == [kind |-> "Item", value |-> v, map |-> << >>]
Map(m) == [kind |-> "Map", value |-> "", map |-> m]

MapOfSize(n) == [i \in 1..n |-> [key |-> MapKeyNames[i], value |-> MapValues[i]]]

Values == {Item(v) : v \in ItemValues} \cup {Map(MapOfSize(n)) : n \in 0..MaxEntries}

Trees ==
    UNION {{[i \in 1..n |-> [key |-> KeyNames[i], value |-> f[i]]] :
                f \in [1..n -> Values]} : n \in 0..MaxKeys}

(* keys() of a keyed collection, in iteration order *)
keys(m) == [i \in 1..Len(m) |-> m[i].key]

(* get(key): Some(value) or None *)
get(m, k) ==
    IF \E i \in 1..Len(m) : m[i].key = k
    THEN << (m[CHOOSE i \in 1..Len(m) : m[i].key = k]).value >>
    ELSE << >>

----------------------------------------------------------------------------
(* StatefulList *)

StateKeyList == "StateKeyList"
MapKeyList == "MapKeyList"

self == [state |-> state, items |-> items, second_state |-> second_state,
         second_items |-> second_items, current_list |-> current_list,
         panicked |-> FALSE]

panic(l) == [l EXCEPT !.panicked = TRUE]

(* update_second_list keeping a secondary selection that is present *)
update_second_list_keep_selection(l) ==
    IF l.state = None THEN panic(l)
    ELSE IF unwrap(l.state) >= Len(l.items) THEN panic(l)
    ELSE LET value == get(contract, l.items[unwrap(l.state) + 1]) IN
         IF value = None THEN panic(l)
         ELSE IF unwrap(value).kind = "Map"
              THEN [l EXCEPT !.second_items = keys(unwrap(value).map),
                             !.second_state = IF l.second_state = None
                                              THEN Some(0) ELSE l.second_state]
              ELSE [l EXCEPT !.second_state = None,
                             !.second_items = << >>]

update_second_list(l) ==
    IF l.state = None THEN panic(l)
    ELSE IF unwrap(l.state) >= Len(l.items) THEN panic(l)
    ELSE LET value == get(contract, l.items[unwrap(l.state) + 1]) IN
         IF value = None THEN panic(l)
         ELSE IF unwrap(value).kind = "Map"
              THEN [l EXCEPT !.second_items = keys(unwrap(value).map),
                             !.second_state = Some(0)]
              ELSE [l EXCEPT !.second_state = None,
                             !.second_items = << >>]

(* with_items without the call of update_second_list *)
with_items_no_update(its) ==
    [state |-> Some(0), items |-> its, second_state |-> None,
     second_items |-> << >>, current_list |-> StateKeyList,
     panicked |-> FALSE]

with_items(its) ==
    LET list == [state |-> None, items |-> its, second_state |-> None,
                 second_items |-> << >>, current_list |-> StateKeyList,
                 panicked |-> FALSE]
    IN update_second_list([list EXCEPT !.state = Some(0)])

(* next without the refresh of the secondary list *)
next_no_refresh(l) ==
    LET primary == l.current_list = StateKeyList
        list_len == IF primary THEN Len(l.items) ELSE Len(l.second_items)
        sel == IF primary THEN l.state ELSE l.second_state
        select(o) == IF primary THEN [l EXCEPT !.state = o]
                                ELSE [l EXCEPT !.second_state = o]
    IN IF list_len = 0 THEN select(None)
       ELSE LET i == IF sel # None
                     THEN IF unwrap(sel) >= list_len - 1 THEN 0 ELSE unwrap(sel) + 1
                     ELSE 0
            IN select(Some(i))

(* next wrapping one element too late: i > list_len - 1 *)
next_off_by_one(l) ==
    LET primary == l.current_list = StateKeyList
        list_len == IF primary THEN Len(l.items) ELSE Len(l.second_items)
        sel == IF primary THEN l.state ELSE l.second_state
        select(o) == IF primary THEN [l EXCEPT !.state = o]
                                ELSE [l EXCEPT !.second_state = o]
        refresh_key == primary
    IN IF list_len = 0 THEN select(None)
       ELSE LET i == IF sel # None
                     THEN IF unwrap(sel) > list_len - 1 THEN 0 ELSE unwrap(sel) + 1
                     ELSE 0
            IN IF refresh_key THEN update_second_list(select(Some(i)))
                              ELSE select(Some(i))

(* next stopping at the last element instead of wrapping to the first *)
next_no_wrap(l) ==
    LET primary == l.current_list = StateKeyList
        list_len == IF primary THEN Len(l.items) ELSE Len(l.second_items)
        sel == IF primary THEN l.state ELSE l.second_state
        select(o) == IF primary THEN [l EXCEPT !.state = o]
                                ELSE [l EXCEPT !.second_state = o]
        refresh_key == primary
    IN IF list_len = 0 THEN select(None)
       ELSE LET i == IF sel # None
                     THEN IF unwrap(sel) >= list_len - 1 THEN list_len - 1
                                                        ELSE unwrap(sel) + 1
                     ELSE 0
            IN IF refresh_key THEN update_second_list(select(Some(i)))
                              ELSE select(Some(i))

(* next moving the cursor of the state keys whatever the focus *)
next_wrong_pane(l) ==
    LET list_len == Len(l.items)
        i == IF l.state # None
             THEN IF unwrap(l.state) >= list_len - 1 THEN 0 ELSE unwrap(l.state) + 1
             ELSE 0
    IN IF list_len = 0 THEN [l EXCEPT !.state = None]
       ELSE update_second_list([l EXCEPT !.state = Some(i)])

next(l) ==
    LET primary == l.current_list = StateKeyList
        list_len == IF primary THEN Len(l.items) ELSE Len(l.second_items)
        sel == IF primary THEN l.state ELSE l.second_state
        select(o) == IF primary THEN [l EXCEPT !.state = o]
                                ELSE [l EXCEPT !.second_state = o]
        refresh_key == primary
    IN IF list_len = 0 THEN select(None)
       ELSE LET i == IF sel # None
                     THEN IF unwrap(sel) >= list_len - 1 THEN 0 ELSE unwrap(sel) + 1
                     ELSE 0
            IN IF refresh_key THEN update_second_list(select(Some(i)))
                              ELSE select(Some(i))

(* previous stopping at the first element instead of wrapping to the last *)
previous_no_wrap(l) ==
    LET primary == l.current_list = StateKeyList
        sel == IF primary THEN l.state ELSE l.second_state
        select(o) == IF primary THEN [l EXCEPT !.state = o]
                                ELSE [l EXCEPT !.second_state = o]
        done(i) == IF primary THEN update_second_list(select(Some(i)))
                              ELSE select(Some(i))
    IN IF sel # None
       THEN IF unwrap(sel) = 0 THEN {done(0)} ELSE {done(unwrap(sel) - 1)}
       ELSE {done(0)}

(* previous yields a set of outcomes: list_len - 1 with list_len = 0       *)
(* panics in a build with overflow checks and wraps to usize::MAX without. *)
previous(l) ==
    LET primary == l.current_list = StateKeyList
        list_len == IF primary THEN Len(l.items) ELSE Len(l.second_items)
        sel == IF primary THEN l.state ELSE l.second_state
        select(o) == IF primary THEN [l EXCEPT !.state = o]
                                ELSE [l EXCEPT !.second_state = o]
        refresh_key == primary
        done(i) == IF refresh_key THEN update_second_list(select(Some(i)))
                                  ELSE select(Some(i))
    IN IF sel # None
       THEN IF unwrap(sel) = 0
            THEN IF list_len = 0 THEN {panic(l), done(UsizeMax)}
                                 ELSE {done(list_len - 1)}
            ELSE {done(unwrap(sel) - 1)}
       ELSE {done(0)}

(* go_right selecting the first map key when it moves the focus *)
go_right_reset(l) ==
    IF l.current_list = StateKeyList /\ l.second_items # << >>
    THEN [l EXCEPT !.current_list = MapKeyList, !.second_state = Some(0)]
    ELSE l

(* go_right without the test of second_items *)
go_right_unchecked(l) ==
    IF l.current_list = StateKeyList
    THEN [l EXCEPT !.current_list = MapKeyList]
    ELSE l

go_right(l) ==
    IF l.current_list = StateKeyList /\ l.second_items # << >>
    THEN [l EXCEPT !.current_list = MapKeyList]
    ELSE l

(* go_left that never moves the focus *)
go_left_stuck(l) == l

go_left(l) ==
    IF l.current_list = MapKeyList
    THEN [l EXCEPT !.current_list = StateKeyList]
    ELSE l

----------------------------------------------------------------------------
(* ui: the text of the "State Value" paragraph; << >> when ui panics *)

NoKeySelected == "NO KEY SELECTED"

(* ui indexing second_items by the cursor of the state keys *)
resolved_value_by_state(l) ==
    IF l.state = None THEN << NoKeySelected >>
    ELSE LET idx == unwrap(l.state) IN
         IF idx >= Len(l.items) THEN << >>
         ELSE LET value == get(contract, l.items[idx + 1]) IN
              IF value = None THEN << >>
              ELSE IF unwrap(value).kind = "Item" THEN << unwrap(value).value >>
              ELSE IF unwrap(l.state) >= Len(l.second_items) THEN << >>
              ELSE get(unwrap(value).map,
                       l.second_items[unwrap(l.state) + 1])

(* ui unwrapping the secondary selection before it looks at the value *)
resolved_value_unwrap_first(l) ==
    IF l.state = None THEN << NoKeySelected >>
    ELSE LET idx == unwrap(l.state) IN
         IF idx >= Len(l.items) THEN << >>
         ELSE LET value == get(contract, l.items[idx + 1]) IN
              IF value = None THEN << >>
              ELSE IF l.second_state = None THEN << >>
              ELSE IF unwrap(value).kind = "Item" THEN << unwrap(value).value >>
              ELSE IF unwrap(l.second_state) >= Len(l.second_items) THEN << >>
              ELSE get(unwrap(value).map,
                       l.second_items[unwrap(l.second_state) + 1])

resolved_value(l) ==
    IF l.state = None THEN << NoKeySelected >>
    ELSE LET idx == unwrap(l.state) IN
         IF idx >= Len(l.items) THEN << >>
         ELSE LET value == get(contract, l.items[idx + 1]) IN
              IF value = None THEN << >>
              ELSE IF unwrap(value).kind = "Item" THEN << unwrap(value).value >>
              ELSE IF l.second_state = None THEN << >>
              ELSE IF unwrap(l.second_state) >= Len(l.second_items) THEN << >>
              ELSE get(unwrap(value).map,
                       l.second_items[unwrap(l.second_state) + 1])

----------------------------------------------------------------------------
(* History of the commands, kept for the properties that span several      *)
(* commands.  The log holds the last LogWindow commands, long enough for   *)
(* one full turn round the longest list.                                   *)

LogWindow == IF MaxKeys >= MaxEntries THEN MaxKeys ELSE MaxEntries

Logged(op) ==
    LET all == Append(log, [op |-> op, pre |-> self]) IN
    IF Len(all) > LogWindow
    THEN SubSeq(all, Len(all) - LogWindow + 1, Len(all))
    ELSE all

(* The end-to-end scenario: the commands issued after construction on the  *)
(* tree x: {a: 1, b: 2}, y: leaf                                           *)
Scenario == <<"go_right", "next", "go_left", "next", "go_right">>

ScenarioTree ==
    << [key |-> "x", value |-> Map(<< [key |-> "a", value |-> "1"],
                                      [key |-> "b", value |-> "2"] >>)],
       [key |-> "y", value |-> Item("leaf")] >>

Followed(op) ==
    IF script >= 0 /\ script < Len(Scenario) /\ Scenario[script + 1] = op
    THEN script + 1
    ELSE -1

----------------------------------------------------------------------------
(* The program: main creates the App, run_app loops draw / poll / tick *)

Store(l) ==
    /\ state' = l.state
    /\ items' = l.items
    /\ second_state' = l.second_state
    /\ second_items' = l.second_items
    /\ current_list' = l.current_list

Init ==
    /\ contract \in Trees
    /\ state = None
    /\ items = << >>
    /\ second_state = None
    /\ second_items = << >>
    /\ current_list = StateKeyList
    /\ events = << >>
    /\ shown = ""
    /\ pc = "new"
    /\ last_op = "main"
    /\ log = << >>
    /\ script = -1

AppNew ==
    /\ pc = "new"
    /\ LET l == with_items(keys(contract)) IN
        /\ Store(l)
        /\ pc' = IF l.panicked THEN "panicked" ELSE "draw"
    /\ events' = << <<"No", "Value">> >>
    /\ last_op' = "new"
    /\ log' = << >>
    /\ script' = 0
    /\ UNCHANGED <<contract, shown>>

Draw ==
    /\ pc = "draw"
    /\ LET r == resolved_value(self) IN
        IF r = << >>
        THEN pc' = "panicked" /\ shown' = shown
        ELSE pc' = "poll" /\ shown' = r[1]
    /\ last_op' = "draw"
    /\ UNCHANGED <<contract, state, items, second_state, second_items,
                   current_list, events, log, script>>

Handled(op, l) ==
    /\ Store(l)
    /\ log' = Logged(op)
    /\ script' = Followed(op)
    /\ pc' = IF l.panicked THEN "panicked" ELSE "tick"
    /\ last_op' = op
    /\ UNCHANGED <<contract, events, shown>>

KeyLeft ==
    /\ pc = "poll"
    /\ Handled("go_left", go_left(self))

KeyRight ==
    /\ pc = "poll"
    /\ Handled("go_right", go_right(self))

KeyDown ==
    /\ pc = "poll"
    /\ Handled("next", next(self))

KeyUp ==
    /\ pc = "poll"
    /\ \E l \in previous(self) : Handled("previous", l)

KeyQuit ==
    /\ pc = "poll"
    /\ pc' = "done"
    /\ last_op' = "quit"
    /\ UNCHANGED <<contract, state, items, second_state, second_items,
                   current_list, events, shown, log, script>>

NoKey ==
    /\ pc = "poll"
    /\ pc' = "tick"
    /\ last_op' = "none"
    /\ UNCHANGED <<contract, state, items, second_state, second_items,
                   current_list, events, shown, log, script>>

on_tick ==
    /\ pc = "tick"
    /\ events' = Append(Tail(events), Head(events))
    /\ pc' = "draw"
    /\ last_op' = "on_tick"
    /\ UNCHANGED <<contract, state, items, second_state, second_items,
                   current_list, shown, log, script>>

NoTick ==
    /\ pc = "tick"
    /\ pc' = "draw"
    /\ last_op' = "no_tick"
    /\ UNCHANGED <<contract, state, items, second_state, second_items,
                   current_list, events, shown, log, script>>

Next ==
    \/ AppNew
    \/ Draw
    \/ KeyLeft
    \/ KeyRight
    \/ KeyDown
    \/ KeyUp
    \/ KeyQuit
    \/ NoKey
    \/ on_tick
    \/ NoTick

Spec == Init /\ [][Next]_vars

----------------------------------------------------------------------------
(* The methods of StatefulList on their own: the struct as the literal of  *)
(* with_items builds it (no selection, no secondary list, focus on the     *)
(* state keys), for every contract state, and any sequence of calls of     *)
(* next, previous, go_right and go_left on it.                             *)

MethodsInit ==
    /\ contract \in Trees
    /\ state = None
    /\ items = keys(contract)
    /\ second_state = None
    /\ second_items = << >>
    /\ current_list = StateKeyList
    /\ events = << >>
    /\ shown = ""
    /\ pc = "call"
    /\ last_op = "literal"
    /\ log = << >>
    /\ script = -1

Returned(op, l) ==
    /\ Store(l)
    /\ log' = Logged(op)
    /\ script' = Followed(op)
    /\ pc' = IF l.panicked THEN "panicked" ELSE "call"
    /\ last_op' = op
    /\ UNCHANGED <<contract, events, shown>>

CallNext ==
    /\ pc = "call"
    /\ Returned("next", next(self))

CallPrevious ==
    /\ pc = "call"
    /\ \E l \in previous(self) : Returned("previous", l)

CallGoRight ==
    /\ pc = "call"
    /\ Returned("go_right", go_right(self))

CallGoLeft ==
    /\ pc = "call"
    /\ Returned("go_left", go_left(self))

MethodsNext ==
    \/ CallNext
    \/ CallPrevious
    \/ CallGoRight
    \/ CallGoLeft

SpecMethods == MethodsInit /\ [][MethodsNext]_vars

----------------------------------------------------------------------------
(* Vocabulary of the properties *)

(* The navigator has been constructed and the program has not panicked *)
Constructed == pc \in {"draw", "poll", "tick", "done", "call"}

InRange(sel, list) == sel # None => unwrap(sel) \in 0..(Len(list) - 1)

(* The value of the contract state that the primary selection addresses *)
Addressed == contract[unwrap(state) + 1].value

AddressesValue == state # None /\ unwrap(state) \in 0..(Len(contract) - 1)

(* The child keys of the value the primary selection addresses *)
ChildKeys ==
    IF AddressesValue /\ Addressed.kind = "Map"
    THEN [i \in 1..Len(Addressed.map) |-> Addressed.map[i].key]
    ELSE << >>

(* The cursor and the list of the focused pane *)
FocusedSelected == IF current_list = StateKeyList THEN state ELSE second_state
FocusedLen == IF current_list = StateKeyList THEN Len(items) ELSE Len(second_items)

----------------------------------------------------------------------------
(* C1: in every state reached by construction and the four commands, a     *)
(* selection index that is present lies in [0, len) of its own list, also  *)
(* when the selected top-level value is a Map with zero entries.           *)
C1_IndicesInRange ==
    Constructed => InRange(state, items) /\ InRange(second_state, second_items)

(* C2: secondary_selected is None whenever secondary_keys is empty and is  *)
(* a valid index whenever secondary_keys is non-empty.                     *)
C2_SecondarySelection ==
    Constructed =>
        IF second_items = << >>
        THEN second_state = None
        ELSE second_state # None /\ InRange(second_state, second_items)

(* C3: secondary_keys is never stale: it is the child keys, in order, of   *)
(* the Map at primary_keys[primary_selected], and empty when that value is *)
(* an Item or when there is no primary selection.                          *)
C3_SecondaryKeysFresh ==
    Constructed => second_items = ChildKeys

C3_Witness ==
    /\ pc = "tick"
    /\ last_op \in {"next", "previous"}
    /\ state = Some(1)
    /\ Len(second_items) = MaxEntries
    /\ contract[1].value.kind = "Item"

(* C4: focus on the secondary pane implies that secondary_keys is          *)
(* non-empty.                                                              *)
C4_FocusOnNonEmptyPane ==
    Constructed => (current_list = MapKeyList => second_items # << >>)

C4_Witness ==
    /\ pc = "tick"
    /\ last_op = "go_right"
    /\ current_list = MapKeyList
    /\ second_items # << >>

(* C5: construction on a tree with no top-level keys succeeds and yields   *)
(* no primary selection, an empty secondary list, no secondary selection   *)
(* and the focus on the primary pane.                                      *)
C5_ConstructEmptyTree ==
    (last_op = "new" /\ contract = << >>) =>
        /\ pc # "panicked"
        /\ state = None
        /\ second_items = << >>
        /\ second_state = None
        /\ current_list = StateKeyList

(* C6: right after construction on a tree with top-level keys, the primary *)
(* selection is 0, the focus is on the primary pane, and the secondary     *)
(* list and selection are the child keys and index 0 when the first value  *)
(* is a Map, the empty list and None when it is an Item.                   *)
C6_ConstructNonEmptyTree ==
    (last_op = "new" /\ contract # << >>) =>
        /\ pc = "draw"
        /\ items = [i \in 1..Len(contract) |-> contract[i].key]
        /\ state = Some(0)
        /\ current_list = StateKeyList
        /\ IF contract[1].value.kind = "Map"
           THEN /\ second_items = [i \in 1..Len(contract[1].value.map) |->
                                      contract[1].value.map[i].key]
                /\ second_state = Some(0)
           ELSE /\ second_items = << >>
                /\ second_state = None

C6_Witness ==
    /\ last_op = "new"
    /\ Len(contract) = MaxKeys
    /\ contract[1].value.kind = "Map"
    /\ second_items = <<"a", "b">>
    /\ second_state = Some(0)

(* C7: when the primary selection addresses a Map with zero entries, the   *)
(* secondary selection is None and resolving the displayed value reports   *)
(* "no selection" instead of failing.                                      *)
C7_EmptyMapResolves ==
    (pc # "new" /\ AddressesValue /\ Addressed.kind = "Map" /\ Addressed.map = << >>) =>
        /\ second_state = None
        /\ pc # "panicked"
        /\ resolved_value(self) = << NoKeySelected >>

(* C8: next acts on the focused pane with wraparound: a cursor at index i  *)
(* of a focused list of length n > 0 moves to (i + 1) mod n, and on an     *)
(* empty focused list the selection stays None.                            *)
C8_NextWraps ==
    [][last_op' = "next" =>
        /\ pc' # "panicked"
        /\ current_list' = current_list
        /\ (FocusedLen > 0 /\ FocusedSelected # None) =>
              FocusedSelected' = Some((unwrap(FocusedSelected) + 1) % FocusedLen)
        /\ FocusedLen = 0 =>
              /\ FocusedSelected' = None
              /\ UNCHANGED <<state, items, second_state, second_items>>]_vars

C8_Witness ==
    /\ pc = "call"
    /\ last_op = "next"
    /\ current_list = MapKeyList
    /\ Len(second_items) >= 2
    /\ second_state = Some(0)

C10_MoveRight ==
    [][last_op' = "go_right" =>
        /\ pc' # "panicked"
        /\ IF current_list = StateKeyList /\ second_items # << >>
           THEN current_list' = MapKeyList
           ELSE UNCHANGED <<state, items, second_state, second_items,
                            current_list>>]_vars

C10_Witness ==
    /\ pc = "tick"
    /\ last_op = "go_right"
    /\ current_list = StateKeyList
    /\ second_items = << >>
    /\ AddressesValue
    /\ Addressed.kind = "Item"

(* C11: go_left moves the focus to the primary pane when it is on the      *)
(* secondary pane and changes nothing when it is already on the primary    *)
(* pane.                                                                   *)
C11_MoveLeft ==
    [][last_op' = "go_left" =>
        /\ pc' # "panicked"
        /\ IF current_list = MapKeyList
           THEN current_list' = StateKeyList
           ELSE UNCHANGED <<state, items, second_state, second_items,
                            current_list>>]_vars

C11_Witness ==
    /\ pc = "tick"
    /\ last_op = "go_left"
    /\ current_list = StateKeyList
    /\ second_state = Some(1)

(* C12: every next or previous issued with the focus on the primary pane   *)
(* recomputes the secondary pane: afterwards secondary_keys are the child  *)
(* keys of the newly selected value and secondary_selected is 0 when that  *)
(* value is a Map, whatever it was before and even if the primary index    *)
(* did not change; secondary_keys is empty and secondary_selected is None  *)
(* when it is an Item.                                                     *)
C12_PrimaryMoveRecomputes ==
    [][(last_op' \in {"next", "previous"} /\ current_list = StateKeyList) =>
        /\ pc' # "panicked"
        /\ AddressesValue'
        /\ second_items' = ChildKeys'
        /\ second_state' = IF Addressed'.kind = "Map" THEN Some(0) ELSE None]_vars

C12_Witness ==
    /\ pc = "tick"
    /\ last_op \in {"next", "previous"}
    /\ current_list = StateKeyList
    /\ Len(items) = 1
    /\ Len(second_items) = MaxEntries
    /\ second_state = Some(0)

(* C13: next and previous issued with the focus on the secondary pane      *)
(* change only secondary_selected, and primary_selected changes only in a  *)
(* step taken with the focus on the primary pane.                          *)
C13_SecondaryMoveFrame ==
    [][/\ (last_op' \in {"next", "previous"} /\ current_list = MapKeyList) =>
            /\ pc' # "panicked"
            /\ UNCHANGED <<items, state, second_items, current_list>>
       /\ state' # state => current_list = StateKeyList]_vars

C13_Witness ==
    /\ pc = "tick"
    /\ last_op \in {"next", "previous"}
    /\ current_list = MapKeyList
    /\ second_state = Some(1)

(* C16: in every reachable state where the primary selection addresses an  *)
(* Item, the resolved value is that item's scalar, whatever the secondary  *)
(* selection is.                                                           *)
C16_ItemResolves ==
    (Constructed /\ AddressesValue /\ Addressed.kind = "Item") =>
        /\ \A o \in {None} \cup {Some(i) : i \in 0..MaxEntries} :
              resolved_value([self EXCEPT !.second_state = o]) = << Addressed.value >>
        /\ pc = "poll" => shown = Addressed.value

C16_Witness ==
    /\ pc = "poll"
    /\ last_op = "draw"
    /\ state = Some(1)
    /\ AddressesValue
    /\ Addressed.kind = "Item"
    /\ shown = "leaf"

(* C17: right after construction or a primary-selection change that lands  *)
(* on a Map with at least one entry, the resolved value is the value under *)
(* that map's first key ("1" for the entries a: 1, b: 2); after later      *)
(* secondary moves it is the value under secondary_keys[secondary_selected] *)
(* of that same map.                                                       *)
C17_MapResolves ==
    (Constructed /\ AddressesValue /\ Addressed.kind = "Map" /\ Addressed.map # << >>) =>
        /\ second_state # None
        /\ InRange(second_state, second_items)
        /\ second_items = ChildKeys
        /\ resolved_value(self) = << Addressed.map[unwrap(second_state) + 1].value >>
        /\ (last_op \in {"new", "next", "previous"} /\ current_list = StateKeyList) =>
              /\ resolved_value(self) = << Addressed.map[1].value >>
              /\ Addressed.map = MapOfSize(2) => resolved_value(self) = << "1" >>
        /\ pc = "poll" => << shown >> = resolved_value(self)

C17_Witness ==
    /\ pc = "tick"
    /\ last_op \in {"next", "previous"}
    /\ current_list = StateKeyList
    /\ state = Some(1)
    /\ AddressesValue
    /\ Addressed = Map(MapOfSize(2))
    /\ resolved_value(self) = << "1" >>

(* C19: for every tree with at least one top-level key nothing fails in    *)
(* any reachable state: every lookup made by the secondary recompute and   *)
(* by the value resolution uses a key that exists and every list access    *)
(* uses an index in range.                                                 *)
C19_NoFailure ==
    contract # << >> => pc # "panicked"

(* Vocabulary of the properties that span several commands *)
FocusedOf(l) == IF l.current_list = StateKeyList THEN l.state ELSE l.second_state

(* The last two commands were a then b *)
LastTwo(a, b) ==
    /\ Len(log) >= 2
    /\ log[Len(log) - 1].op = a
    /\ log[Len(log)].op = b

(* The list as it was before the command before the last one *)
BeforeLastTwo == log[Len(log) - 1].pre

(* The last n commands were all next *)
LastWereNext(n) ==
    /\ Len(log) >= n
    /\ \A k \in (Len(log) - n + 1)..Len(log) : log[k].op = "next"

(* C14: next followed by previous, with no focus change in between,        *)
(* returns the focused cursor to its original index; with the focus on the *)
(* primary pane the primary index round-trips exactly (the secondary       *)
(* selection may differ, as the witness shows).                            *)
C14_NextPreviousRoundTrip ==
    (LastTwo("next", "previous") /\
     BeforeLastTwo.current_list = log[Len(log)].pre.current_list) =>
        /\ last_op = "previous" => pc # "panicked"
        /\ current_list = BeforeLastTwo.current_list
        /\ FocusedSelected = FocusedOf(BeforeLastTwo)
        /\ current_list = StateKeyList => state = BeforeLastTwo.state

C14_Witness ==
    /\ pc = "tick"
    /\ last_op = "previous"
    /\ LastTwo("next", "previous")
    /\ current_list = StateKeyList
    /\ Len(items) >= 2
    /\ state = BeforeLastTwo.state
    /\ second_state # BeforeLastTwo.second_state

(* C15: with a focused list of length n > 0, next issued exactly n times   *)
(* in a row returns the focused cursor to its starting index.              *)
C15_FullTurn ==
    (pc # "new" /\ FocusedLen > 0 /\ LastWereNext(FocusedLen)) =>
        /\ pc # "panicked"
        /\ FocusedSelected = FocusedOf(log[Len(log) - FocusedLen + 1].pre)

C15_Witness ==
    /\ pc = "tick"
    /\ last_op = "next"
    /\ current_list = MapKeyList
    /\ FocusedLen = MaxEntries
    /\ LastWereNext(FocusedLen)
    /\ second_state = Some(1)

(* C18: the end-to-end scenario on the tree x: {a: 1, b: 2}, y: leaf.      *)
(* Construction selects x, lists a and b, selects a and resolves 1 with    *)
(* the focus on the primary pane; go_right moves the focus to the          *)
(* secondary pane; next selects b and resolves 2; go_left moves the focus  *)
(* back; next selects y, empties the secondary list and resolves leaf; a   *)
(* last go_right changes nothing.                                          *)
C18_Scenario ==
    (contract = ScenarioTree /\ script >= 0) =>
        /\ pc # "panicked"
        /\ script = 0 =>
              /\ state = Some(0)
              /\ second_items = <<"a", "b">>
              /\ second_state = Some(0)
              /\ resolved_value(self) = << "1" >>
              /\ current_list = StateKeyList
        /\ script = 1 => current_list = MapKeyList
        /\ script = 2 =>
              /\ second_state = Some(1)
              /\ resolved_value(self) = << "2" >>
        /\ script = 3 => current_list = StateKeyList
        /\ script = 4 =>
              /\ state = Some(1)
              /\ second_items = << >>
              /\ second_state = None
              /\ resolved_value(self) = << "leaf" >>
        /\ script = 5 =>
              /\ current_list = StateKeyList
              /\ self = log[Len(log)].pre
        /\ pc = "poll" => << shown >> = resolved_value(self)

C18_Witness ==
    /\ contract = ScenarioTree
    /\ script = Len(Scenario)
    /\ pc = "poll"
    /\ current_list = StateKeyList
    /\ state = Some(1)
    /\ shown = "leaf"

(* C20: go_left and go_right change nothing but the focus, so a secondary  *)
(* selection made before go_left is still selected after a following       *)
(* go_right, and go_right followed by go_left from a state with the focus  *)
(* on the primary pane restores the exact prior state.                     *)
C20_FocusMovesFrame ==
    /\ [][last_op' \in {"go_left", "go_right"} =>
            /\ pc' # "panicked"
            /\ UNCHANGED <<items, state, second_items, second_state>>]_vars
    /\ [](LastTwo("go_left", "go_right") =>
            /\ second_items = BeforeLastTwo.second_items
            /\ second_state = BeforeLastTwo.second_state)
    /\ []((LastTwo("go_right", "go_left") /\
           BeforeLastTwo.current_list = StateKeyList) =>
            self = BeforeLastTwo)

C20_Witness ==
    /\ pc = "tick"
    /\ last_op = "go_right"
    /\ LastTwo("go_left", "go_right")
    /\ BeforeLastTwo.current_list = MapKeyList
    /\ current_list = MapKeyList
    /\ second_state = Some(1)

----------------------------------------------------------------------------
TypeOK ==
    /\ contract \in Trees
    /\ pc \in {"new", "draw", "poll", "tick", "done", "panicked", "call"}
    /\ current_list \in {StateKeyList, MapKeyList}
====
